---- MODULE Spec2Model ----
(***************************************************************************)
(* Model of common/persistence/versionhistory/version_histories.go: the    *)
(* VersionHistories aggregate (a list of branches plus the index of the    *)
(* current branch) and the operations on it.                               *)
(*                                                                         *)
(* A VersionHistoryItem is a record [eventId, version].  A stored branch   *)
(* (an element of h.Histories) is the sequence of its Items.  A           *)
(* branch handed in by a caller is a pointer that may be nil: it is a      *)
(* record [present, Items].  Indices are 0-based as in the code, so the    *)
(* branch at index i is histories[i + 1].                                  *)
(***************************************************************************)
EXTENDS Integers, Sequences, FiniteSets, TLC

VARIABLES pc, histories, currentVersionHistoryIndex, seed, call, before

vars == <<pc, histories, currentVersionHistoryIndex, seed, call, before>>

\* ------------------------------------------------------------------ bounds
MaxVersion == 2
MaxEventId == 2
MaxBranches == 3

Versions == 1..MaxVersion
EventIds == 1..MaxEventId
Items == [eventId : EventIds, version : Versions]

\* Item sequences of length n whose eventIds strictly increase (the
\* VersionHistory data-model invariant); versions are unconstrained.
ItemSeqs(n) == {s \in [1..n -> Items] : \A i \in 1..(n - 1) : s[i].eventId < s[i + 1].eventId}
Branches == UNION {ItemSeqs(n) : n \in 0..MaxEventId}

\* A *VersionHistory argument: nil, or a pointer to a branch.
NilHistory == [present |-> FALSE, Items |-> <<>>]
Ptr(items) == [present |-> TRUE, Items |-> items]
Candidates == {NilHistory} \cup {Ptr(b) : b \in Branches}
Indexes == (0 - 1)..MaxBranches

\* ------------------------------------------------------------------ errors
NoErr == "ok"
ErrOutOfRange == "version histories index is out of range."
ErrNilHistory == "version histories is null."
ErrFirstItemMismatch == "version history first item does not match."
ErrNotContained == "version histories does not contains given item"
ErrInvalidIndex == "invalid current version history index."
ErrEmptyHistory == "version history is empty."
ErrNoLCA == "version history is malformed. No joint point found."

NoItem == [eventId |-> 0, version |-> 0]

\* ------------------------------------------- VersionHistory primitives
CopyVersionHistoryItem(item) == [eventId |-> item.eventId, version |-> item.version]

CopyVersionHistory(items) == [i \in 1..Len(items) |-> CopyVersionHistoryItem(items[i])]

GetFirstVersionHistoryItem(items) ==
  IF Len(items) = 0
    THEN [err |-> ErrEmptyHistory, item |-> NoItem]
    ELSE [err |-> NoErr, item |-> CopyVersionHistoryItem(items[1])]

GetLastVersionHistoryItem(items) ==
  IF Len(items) = 0
    THEN [err |-> ErrEmptyHistory, item |-> NoItem]
    ELSE [err |-> NoErr, item |-> CopyVersionHistoryItem(items[Len(items)])]

\* contains: an exact boundary match, or an eventId strictly between two
\* consecutive boundaries with the later boundary's version.
ContainsVersionHistoryItem(items, item) ==
  \/ \E i \in 1..Len(items) :
       items[i].eventId = item.eventId /\ items[i].version = item.version
  \/ \E i \in 2..Len(items) :
       /\ items[i].version = item.version
       /\ items[i - 1].eventId < item.eventId
       /\ item.eventId < items[i].eventId

Min(a, b) == IF a < b THEN a ELSE b

\* The boundary walk of findLCAItem: i and j are the positions in the local
\* and the other branch, agreed is the last agreed point so far.
RECURSIVE LCAWalk(_, _, _, _, _)
LCAWalk(local, other, i, j, agreed) ==
  IF i > Len(local) \/ j > Len(other) \/ local[i].version # other[j].version
    THEN agreed
    ELSE LET m == Min(local[i].eventId, other[j].eventId)
         IN LCAWalk(local, other,
                    IF local[i].eventId = m THEN i + 1 ELSE i,
                    IF other[j].eventId = m THEN j + 1 ELSE j,
                    [eventId |-> m, version |-> local[i].version])

FindLCAVersionHistoryItem(local, other) ==
  LET agreed == LCAWalk(local, other, 1, 1, NoItem)
  IN IF agreed = NoItem
       THEN [err |-> ErrNoLCA, item |-> NoItem]
       ELSE [err |-> NoErr, item |-> agreed]

\* ------------------------------------------- VersionHistories aggregate
\* NewVersionHistories: panics on a nil seed, otherwise the aggregate holds
\* the seed itself (not a copy) and points at it.
\* Variant: the nil check is missing.
NewVersionHistoriesNoNilCheck(v) ==
  [panicked |-> FALSE, histories |-> <<v.Items>>, currentVersionHistoryIndex |-> 0]

NewVersionHistories(v) ==
  IF ~v.present
    THEN [panicked |-> TRUE, histories |-> <<>>, currentVersionHistoryIndex |-> 0]
    ELSE [panicked |-> FALSE, histories |-> <<v.Items>>, currentVersionHistoryIndex |-> 0]

GetIndexOutOfRange(h, index) == index < 0 \/ index >= Len(h)

GetVersionHistory(h, index) ==
  IF GetIndexOutOfRange(h, index)
    THEN [err |-> ErrOutOfRange, history |-> <<>>]
    ELSE [err |-> NoErr, history |-> h[index + 1]]

GetCurrentVersionHistory(h, cur) == GetVersionHistory(h, cur)

CopyVersionHistories(h, cur) ==
  [histories |-> [i \in 1..Len(h) |-> CopyVersionHistory(h[i])],
   currentVersionHistoryIndex |-> cur]

\* "return 0, err" of AddVersionHistory: h is the aggregate's branch list at
\* the return statement.
AddFail(h, e) == [err |-> e, index |-> 0, histories |-> h]

\* Variant: the first items' eventIds are compared instead of their versions.
FirstItemMismatchByEventId(incomingFirstItem, currentFirstItem) ==
  incomingFirstItem.eventId # currentFirstItem.eventId

\* Variant: the origin validation is missing.
FirstItemMismatchNever(incomingFirstItem, currentFirstItem) == FALSE

FirstItemMismatch(incomingFirstItem, currentFirstItem) ==
  incomingFirstItem.version # currentFirstItem.version

\* Variant: the new branch is put in front instead of at the end.
AppendVersionHistoryInFront(h, items) ==
  LET appended == <<CopyVersionHistory(items)>> \o h
  IN [err |-> NoErr, index |-> Len(appended) - 1, histories |-> appended]

\* Lines 98-102: append a copy and return its index.
AppendVersionHistory(h, items) ==
  LET appended == Append(h, CopyVersionHistory(items))
  IN [err |-> NoErr, index |-> Len(appended) - 1, histories |-> appended]

\* Variant: the copy is appended before the origin validation.
AddVersionHistoryAppendFirst(h, cur, v) ==
  IF ~v.present THEN AddFail(h, ErrNilHistory)
  ELSE
    LET incomingFirstItem == GetFirstVersionHistoryItem(v.Items)
        currentVersionHistory == GetVersionHistory(h, cur)
        currentFirstItem == GetFirstVersionHistoryItem(currentVersionHistory.history)
        appended == AppendVersionHistory(h, v.Items)
    IN IF incomingFirstItem.err # NoErr THEN AddFail(h, incomingFirstItem.err)
       ELSE IF currentVersionHistory.err # NoErr THEN AddFail(h, currentVersionHistory.err)
       ELSE IF currentFirstItem.err # NoErr THEN AddFail(h, currentFirstItem.err)
       ELSE IF FirstItemMismatch(incomingFirstItem.item, currentFirstItem.item)
         THEN AddFail(appended.histories, ErrFirstItemMismatch)
       ELSE appended

AddVersionHistory(h, cur, v) ==
  IF ~v.present THEN AddFail(h, ErrNilHistory)
  ELSE
    LET incomingFirstItem == GetFirstVersionHistoryItem(v.Items)
        currentVersionHistory == GetVersionHistory(h, cur)
        currentFirstItem == GetFirstVersionHistoryItem(currentVersionHistory.history)
    IN IF incomingFirstItem.err # NoErr THEN AddFail(h, incomingFirstItem.err)
       ELSE IF currentVersionHistory.err # NoErr THEN AddFail(h, currentVersionHistory.err)
       ELSE IF currentFirstItem.err # NoErr THEN AddFail(h, currentFirstItem.err)
       ELSE IF FirstItemMismatch(incomingFirstItem.item, currentFirstItem.item)
         THEN AddFail(h, ErrFirstItemMismatch)
       ELSE AppendVersionHistory(h, v.Items)

\* "return false, 0, err" of AddAndSwitchVersionHistory; h and cur are the
\* aggregate as it stands at the return statement.
SwitchFail(h, cur, e) ==
  [err |-> e, switched |-> FALSE, index |-> 0, histories |-> h,
   currentVersionHistoryIndex |-> cur]

\* Variant: >= instead of >.
ShouldSwitchGeq(newLastItem, currentLastItem) ==
  newLastItem.version >= currentLastItem.version

\* Variant: # instead of >.
ShouldSwitchNeq(newLastItem, currentLastItem) ==
  newLastItem.version # currentLastItem.version

\* Line 137: the switch condition.
ShouldSwitch(newLastItem, currentLastItem) ==
  newLastItem.version > currentLastItem.version

AddAndSwitchVersionHistory(h, cur, v) ==
  LET added == AddVersionHistory(h, cur, v)
  IN IF added.err # NoErr THEN SwitchFail(added.histories, cur, added.err)
     ELSE
       LET newLastItem == GetLastVersionHistoryItem(v.Items)
           currentVersionHistory == GetVersionHistory(added.histories, cur)
           currentLastItem == GetLastVersionHistoryItem(currentVersionHistory.history)
       IN IF newLastItem.err # NoErr THEN SwitchFail(added.histories, cur, newLastItem.err)
          ELSE IF currentVersionHistory.err # NoErr
            THEN SwitchFail(added.histories, cur, currentVersionHistory.err)
          ELSE IF currentLastItem.err # NoErr
            THEN SwitchFail(added.histories, cur, currentLastItem.err)
          ELSE IF ShouldSwitch(newLastItem.item, currentLastItem.item)
            THEN [err |-> NoErr, switched |-> TRUE, index |-> added.index,
                  histories |-> added.histories,
                  currentVersionHistoryIndex |-> added.index]
            ELSE [err |-> NoErr, switched |-> FALSE, index |-> added.index,
                  histories |-> added.histories,
                  currentVersionHistoryIndex |-> cur]

\* The loop of FindLCAVersionHistoryItemAndIndex from branch k on; best is
\* (versionHistoryItem, versionHistoryIndex, versionHistoryLength), with
\* set = FALSE while versionHistoryItem is nil.
NoBest == [set |-> FALSE, item |-> NoItem, index |-> 0, length |-> 0]

\* Variant: on a tie the longer branch wins.
LCABetterLonger(item, length, best) ==
  \/ ~best.set
  \/ item.eventId > best.item.eventId
  \/ (item.eventId = best.item.eventId /\ length > best.length)

\* Lines 157-161: whether the branch just compared replaces the best so far.
LCABetter(item, length, best) ==
  \/ ~best.set
  \/ item.eventId > best.item.eventId
  \/ (item.eventId = best.item.eventId /\ length < best.length)

RECURSIVE LCALoop(_, _, _, _)
LCALoop(h, incoming, k, best) ==
  IF k > Len(h)
    THEN [err |-> NoErr, item |-> CopyVersionHistoryItem(best.item), index |-> best.index]
    ELSE LET r == FindLCAVersionHistoryItem(h[k], incoming)
         IN IF r.err # NoErr
              THEN [err |-> r.err, item |-> NoItem, index |-> 0]
              ELSE LCALoop(h, incoming, k + 1,
                     IF LCABetter(r.item, Len(h[k]), best)
                       THEN [set |-> TRUE, item |-> r.item, index |-> k - 1,
                             length |-> Len(h[k])]
                       ELSE best)

FindLCAVersionHistoryItemAndIndex(h, incoming) == LCALoop(h, incoming, 1, NoBest)

\* Variant: the loop does not return at the first match, the last match wins.
FirstIndexLoopLastMatch(h, item, k) ==
  LET matches == {j \in k..Len(h) : ContainsVersionHistoryItem(h[j], item)}
  IN IF matches = {} THEN [err |-> ErrNotContained, index |-> 0]
     ELSE [err |-> NoErr,
           index |-> (CHOOSE j \in matches : \A i \in matches : i <= j) - 1]

\* The loop of FindFirstVersionHistoryIndexByVersionHistoryItem from branch
\* k on.
RECURSIVE FirstIndexLoop(_, _, _)
FirstIndexLoop(h, item, k) ==
  IF k > Len(h) THEN [err |-> ErrNotContained, index |-> 0]
  ELSE IF ContainsVersionHistoryItem(h[k], item) THEN [err |-> NoErr, index |-> k - 1]
  ELSE FirstIndexLoop(h, item, k + 1)

FindFirstVersionHistoryIndexByVersionHistoryItem(h, item) == FirstIndexLoop(h, item, 1)

\* Variant: > instead of >=.
SetIndexOutOfRangeOffByOne(h, index) == index < 0 \/ index > Len(h)

SetIndexOutOfRange(h, index) == index < 0 \/ index >= Len(h)

SetCurrentVersionHistoryIndex(h, cur, index) ==
  IF SetIndexOutOfRange(h, index)
    THEN [err |-> ErrInvalidIndex, currentVersionHistoryIndex |-> cur]
    ELSE [err |-> NoErr, currentVersionHistoryIndex |-> index]

\* ------------------------------------------------------------ state machine
\* pc: "new" before construction, "ready" once the aggregate exists, "panic"
\* when construction panicked.  seed is the constructor's argument.  call is
\* the last operation (name, arguments, results) and before is the aggregate
\* as it was when that operation was called.
NoCall == [op |-> "none", history |-> NilHistory, index |-> 0, item |-> NoItem,
           err |-> NoErr, retIndex |-> 0, retItem |-> NoItem, switched |-> FALSE,
           retHistories |-> <<>>]

Aggregate == [histories |-> histories,
              currentVersionHistoryIndex |-> currentVersionHistoryIndex]

Init ==
  /\ pc = "new"
  /\ histories = <<>>
  /\ currentVersionHistoryIndex = 0
  /\ seed = NilHistory
  /\ call = NoCall
  /\ before = [histories |-> <<>>, currentVersionHistoryIndex |-> 0]

New(v) ==
  /\ pc = "new"
  /\ seed' = v
  /\ before' = Aggregate
  /\ call' = [NoCall EXCEPT !.op = "New", !.history = v]
  /\ LET r == NewVersionHistories(v)
     IN /\ pc' = IF r.panicked THEN "panic" ELSE "ready"
        /\ histories' = r.histories
        /\ currentVersionHistoryIndex' = r.currentVersionHistoryIndex

Add(v) ==
  /\ pc = "ready"
  /\ before' = Aggregate
  /\ LET r == AddVersionHistory(histories, currentVersionHistoryIndex, v)
     IN /\ Len(r.histories) <= MaxBranches
        /\ histories' = r.histories
        /\ call' = [NoCall EXCEPT !.op = "Add", !.history = v, !.err = r.err,
                                  !.retIndex = r.index]
  /\ UNCHANGED <<pc, currentVersionHistoryIndex, seed>>

AddAndSwitch(v) ==
  /\ pc = "ready"
  /\ before' = Aggregate
  /\ LET r == AddAndSwitchVersionHistory(histories, currentVersionHistoryIndex, v)
     IN /\ Len(r.histories) <= MaxBranches
        /\ histories' = r.histories
        /\ currentVersionHistoryIndex' = r.currentVersionHistoryIndex
        /\ call' = [NoCall EXCEPT !.op = "AddAndSwitch", !.history = v, !.err = r.err,
                                  !.retIndex = r.index, !.switched = r.switched]
  /\ UNCHANGED <<pc, seed>>

SetCurrent(index) ==
  /\ pc = "ready"
  /\ before' = Aggregate
  /\ LET r == SetCurrentVersionHistoryIndex(histories, currentVersionHistoryIndex, index)
     IN /\ currentVersionHistoryIndex' = r.currentVersionHistoryIndex
        /\ call' = [NoCall EXCEPT !.op = "SetCurrent", !.index = index, !.err = r.err]
  /\ UNCHANGED <<pc, histories, seed>>

Get(index) ==
  /\ pc = "ready"
  /\ before' = Aggregate
  /\ LET r == GetVersionHistory(histories, index)
     IN call' = [NoCall EXCEPT !.op = "Get", !.index = index, !.err = r.err,
                               !.retHistories = <<r.history>>]
  /\ UNCHANGED <<pc, histories, currentVersionHistoryIndex, seed>>

GetCurrent ==
  /\ pc = "ready"
  /\ before' = Aggregate
  /\ LET r == GetCurrentVersionHistory(histories, currentVersionHistoryIndex)
     IN call' = [NoCall EXCEPT !.op = "GetCurrent", !.err = r.err,
                               !.retHistories = <<r.history>>]
  /\ UNCHANGED <<pc, histories, currentVersionHistoryIndex, seed>>

Copy ==
  /\ pc = "ready"
  /\ before' = Aggregate
  /\ LET r == CopyVersionHistories(histories, currentVersionHistoryIndex)
     IN call' = [NoCall EXCEPT !.op = "Copy", !.retHistories = r.histories,
                               !.retIndex = r.currentVersionHistoryIndex]
  /\ UNCHANGED <<pc, histories, currentVersionHistoryIndex, seed>>

FindLCA(incoming) ==
  /\ pc = "ready"
  /\ before' = Aggregate
  /\ LET r == FindLCAVersionHistoryItemAndIndex(histories, incoming)
     IN call' = [NoCall EXCEPT !.op = "FindLCA", !.history = Ptr(incoming),
                               !.err = r.err, !.retIndex = r.index, !.retItem = r.item]
  /\ UNCHANGED <<pc, histories, currentVersionHistoryIndex, seed>>

FindFirst(item) ==
  /\ pc = "ready"
  /\ before' = Aggregate
  /\ LET r == FindFirstVersionHistoryIndexByVersionHistoryItem(histories, item)
     IN call' = [NoCall EXCEPT !.op = "FindFirst", !.item = item, !.err = r.err,
                               !.retIndex = r.index]
  /\ UNCHANGED <<pc, histories, currentVersionHistoryIndex, seed>>

Next ==
  \/ \E v \in Candidates : New(v)
  \/ \E v \in Candidates : Add(v)
  \/ \E v \in Candidates : AddAndSwitch(v)
  \/ \E i \in Indexes : SetCurrent(i)
  \/ \E i \in Indexes : Get(i)
  \/ GetCurrent
  \/ Copy
  \/ \E b \in Branches : FindLCA(b)
  \/ \E x \in Items : FindFirst(x)

Spec == Init /\ [][Next]_vars

\* The aggregate when AddAndSwitchVersionHistory is its only mutator.
NextSwitchOnly ==
  \/ \E v \in Candidates : New(v)
  \/ \E v \in Candidates : AddAndSwitch(v)

SpecSwitchOnly == Init /\ [][NextSwitchOnly]_vars

\* ------------------------------------------------------------------ claims
Pre == before.histories
PreCur == before.currentVersionHistoryIndex
Cur == currentVersionHistoryIndex
Arg == call.history.Items
FirstVersion(items) == items[1].version
LastVersion(items) == items[Len(items)].version
Mutators == {"Add", "AddAndSwitch", "SetCurrent"}
Readers == {"Get", "GetCurrent", "Copy", "FindLCA", "FindFirst"}
\* The LCA item of branch k with the incoming branch of the last call, and
\* whether branch k contains the item of the last call.
LCAItemOf(k) == FindLCAVersionHistoryItem(histories[k], Arg)
BranchContains(k) == ContainsVersionHistoryItem(histories[k], call.item)

\* C1: a successful AddAndSwitchVersionHistory returns switched = TRUE and
\* makes the new branch current iff the candidate's last version is greater
\* than the current branch's last version; otherwise switched = FALSE and the
\* current index is as before.  Either way the returned index is the index of
\* the appended branch.
C1_SwitchPolicy ==
  (call.op = "AddAndSwitch" /\ call.err = NoErr) =>
    LET vn == LastVersion(Arg)
        vc == LastVersion(Pre[PreCur + 1])
    IN /\ call.switched <=> vn > vc
       /\ vn > vc => Cur = Len(Pre)
       /\ vn <= vc => Cur = PreCur
       /\ call.retIndex = Len(Pre)
       /\ Len(histories) = Len(Pre) + 1
       /\ histories[call.retIndex + 1] = Arg

C1_Witness ==
  /\ call.op = "AddAndSwitch"
  /\ call.err = NoErr
  /\ call.switched
  /\ PreCur = 1
  /\ Cur = 2

\* C2: AddVersionHistory fails with the first-item-mismatch error whenever the
\* candidate's first version differs from the current branch's first version;
\* otherwise it adds exactly one branch, at the end, with the candidate's
\* items, and returns the branch count before the insertion.
C2_AddContract ==
  (call.op = "Add" /\ call.history.present /\ Arg # <<>> /\ Pre[PreCur + 1] # <<>>) =>
    IF FirstVersion(Arg) # FirstVersion(Pre[PreCur + 1])
      THEN call.err = ErrFirstItemMismatch
      ELSE /\ call.err = NoErr
           /\ Len(histories) = Len(Pre) + 1
           /\ histories[Len(histories)] = Arg
           /\ call.retIndex = Len(Pre)

C2_Witness ==
  /\ call.op = "Add"
  /\ call.err = NoErr
  /\ call.retIndex = 2
  /\ Len(Arg) = 2
  /\ histories[3] = Arg

\* C3: once constructed, the aggregate is never empty and its current index
\* always addresses a branch, so GetCurrentVersionHistory never fails.
C3_CurrentIndexInRange ==
  pc = "ready" =>
    /\ Len(histories) >= 1
    /\ 0 <= Cur
    /\ Cur < Len(histories)
    /\ GetCurrentVersionHistory(histories, Cur).err = NoErr

C3_Witness ==
  /\ pc = "ready"
  /\ call.op = "SetCurrent"
  /\ call.err = ErrInvalidIndex
  /\ call.index = Len(histories)
  /\ Len(histories) = 2
  /\ Cur = 1

\* C4: with a non-empty seed, every branch of the aggregate starts with the
\* seed's first version, whichever branch was current when it was added.
C4_SharedOrigin ==
  (pc = "ready" /\ seed.Items # <<>>) =>
    \A k \in 1..Len(histories) :
      /\ histories[k] # <<>>
      /\ FirstVersion(histories[k]) = FirstVersion(seed.Items)

C4_Witness ==
  /\ pc = "ready"
  /\ call.op = "Add"
  /\ call.err = NoErr
  /\ PreCur = 1
  /\ Len(histories) = 3
  /\ histories[3] # histories[1]

\* C5: when every branch has an LCA item with the incoming branch,
\* FindLCAVersionHistoryItemAndIndex succeeds and returns a branch and its LCA
\* item such that no branch has an LCA item with a higher eventId, and no
\* branch with that same eventId has fewer items.
C5_LCASelection ==
  (call.op = "FindLCA" /\ \A k \in 1..Len(histories) : LCAItemOf(k).err = NoErr) =>
    /\ call.err = NoErr
    /\ call.retIndex + 1 \in 1..Len(histories)
    /\ call.retItem = LCAItemOf(call.retIndex + 1).item
    /\ \A k \in 1..Len(histories) :
         /\ LCAItemOf(k).item.eventId <= call.retItem.eventId
         /\ LCAItemOf(k).item.eventId = call.retItem.eventId =>
              Len(histories[k]) >= Len(histories[call.retIndex + 1])

C5_Witness ==
  /\ call.op = "FindLCA"
  /\ call.err = NoErr
  /\ call.retIndex = 1
  /\ Len(histories) = 3
  /\ LCAItemOf(1).item.eventId = call.retItem.eventId
  /\ LCAItemOf(3).item.eventId = call.retItem.eventId
  /\ Len(histories[1]) > Len(histories[2])
  /\ Len(histories[3]) > Len(histories[2])

\* C6: no operation removes or changes a stored branch: the branches that
\* were there before the call are there after it, at the same indices; the
\* adds put at most one branch at the end, SetCurrentVersionHistoryIndex
\* leaves the branch list alone, and the read-only operations leave the whole
\* aggregate alone.
C6_AppendOnly ==
  (pc = "ready" /\ call.op # "New") =>
    /\ Len(histories) >= Len(Pre)
    /\ Len(histories) <= Len(Pre) + 1
    /\ \A k \in 1..Len(Pre) : histories[k] = Pre[k]
    /\ call.op \in {"Add", "AddAndSwitch"} =>
         (Len(histories) = Len(Pre) + 1 <=> call.err = NoErr)
    /\ call.op = "SetCurrent" => histories = Pre
    /\ call.op \in Readers => Aggregate = before

C6_Witness ==
  /\ call.op = "AddAndSwitch"
  /\ call.err = NoErr
  /\ Len(histories) = 3
  /\ histories[1] # histories[2]
  /\ histories[2] # histories[3]

\* C7: FindFirstVersionHistoryIndexByVersionHistoryItem returns the smallest
\* index of a branch that contains the item, fails exactly when no branch
\* contains it, and leaves the aggregate alone.
C7_FirstContaining ==
  call.op = "FindFirst" =>
    /\ call.err = NoErr <=> \E k \in 1..Len(histories) : BranchContains(k)
    /\ call.err # NoErr => call.err = ErrNotContained
    /\ call.err = NoErr =>
         /\ call.retIndex + 1 \in 1..Len(histories)
         /\ BranchContains(call.retIndex + 1)
         /\ \A k \in 1..call.retIndex : ~BranchContains(k)
    /\ Aggregate = before

C7_Witness ==
  /\ call.op = "FindFirst"
  /\ call.err = NoErr
  /\ call.retIndex = 1
  /\ Len(histories) = 3
  /\ BranchContains(3)

\* C8: NewVersionHistories panics on a nil seed and leaves no aggregate; on a
\* present seed the aggregate has exactly that one branch and current index 0.
C8_Construction ==
  /\ pc \in {"new", "panic"} => histories = <<>>
  /\ call.op = "New" =>
       IF call.history.present
         THEN /\ pc = "ready"
              /\ histories = <<Arg>>
              /\ Cur = 0
         ELSE pc = "panic"

C8_Witness ==
  /\ call.op = "New"
  /\ ~call.history.present
  /\ pc = "panic"

\* C9: a mutator that returns an error leaves the branch list and the current
\* index exactly as they were.
C9_FailureAtomic ==
  (call.op \in Mutators /\ call.err # NoErr) => Aggregate = before

C9_Witness ==
  /\ call.op = "AddAndSwitch"
  /\ call.err = ErrFirstItemMismatch
  /\ Len(histories) = 2
  /\ Cur = 1

\* C10: when AddAndSwitchVersionHistory is the only mutator and the seed is
\* non-empty, the current branch's last version is the greatest last version
\* in the aggregate, and the current branch is the lowest-index branch that
\* has it.
C10_CurrentIsFirstMax ==
  (pc = "ready" /\ seed.Items # <<>>) =>
    \A k \in 1..Len(histories) :
      /\ LastVersion(histories[Cur + 1]) >= LastVersion(histories[k])
      /\ LastVersion(histories[k]) = LastVersion(histories[Cur + 1]) => Cur <= k - 1

C10_Witness ==
  /\ pc = "ready"
  /\ Len(histories) = 3
  /\ Cur = 1
  /\ LastVersion(histories[3]) = LastVersion(histories[2])
  /\ LastVersion(histories[1]) < LastVersion(histories[2])

====
